---- MODULE Spec2Model ----
(***************************************************************************)
(* The JSON-API connector: JSONAPICursor (dbapi.py), the column probe of   *)
(* JSONAPIDialect (dialect.py) and format_api_response_for_superset        *)
(* (api_formatter.py).                                                     *)
(*                                                                         *)
(* A Python value is a record of one field named after its type:           *)
(* [int |-> 1], None is [null |-> TRUE].  A dict is the sequence of its    *)
(* <<key, value>> items in insertion order, keys distinct.  A str that     *)
(* holds SQL text is the sequence of its lexemes (see the alphabet below); *)
(* every lexeme stands for its own characters.                             *)
(***************************************************************************)
EXTENDS Integers, Sequences, FiniteSets, TLC

VARIABLES
    _results,       \* JSONAPICursor._results: sequence of rows
    _description,   \* JSONAPICursor._description: None or list of 7-tuples
    rowcount,       \* JSONAPICursor.rowcount
    _row_index,     \* JSONAPICursor._row_index
    called,         \* the method that ran last
    operation,      \* its `operation` argument (None or str)
    parameters,     \* its `parameters` argument (None or dict)
    fetch_size,     \* the `size` argument of the last fetchmany
    limit,          \* local `limit` of the last execute / result of _parse_limit
    filters,        \* local `filters` of the last execute / result of _parse_filters
    sent,           \* the params of every session.get issued by the last execute
    response,       \* what the endpoint answered to the last GET
    raised,         \* class of the exception that left the last call, or "none"
    returned,       \* return value of the last fetch call
    rows,           \* result of _normalize_data(data)
    formatted,      \* result of format_api_response_for_superset
    columns         \* result of JSONAPIDialect.get_columns

cursorVars == <<_results, _description, rowcount, _row_index>>
callVars   == <<called, operation, parameters, fetch_size, limit, filters, sent,
                response, raised, returned>>
pureVars   == <<rows, formatted, columns>>
vars       == <<cursorVars, callVars, pureVars>>

---------------------------------------------------------------------------
(* Python values *)

None       == [null |-> TRUE]
JInt(n)    == [int |-> n]
JFloat(s)  == [float |-> s]
JBool(b)   == [bool |-> b]
JStr(s)    == [str |-> s]
JList(s)   == [list |-> s]
JDict(kvs) == [dict |-> kvs]
Unset      == [unset |-> TRUE]

\* type(x).__name__ and the payload of x
TypeOf(x) == CHOOSE t \in DOMAIN x : TRUE
Val(x)    == x[TypeOf(x)]

\* isinstance(x, cls): bool is a subclass of int in Python
isinstance(x, cls) ==
    CASE cls = "dict"  -> TypeOf(x) = "dict"
      [] cls = "list"  -> TypeOf(x) = "list"
      [] cls = "int"   -> TypeOf(x) \in {"int", "bool"}
      [] cls = "float" -> TypeOf(x) = "float"
      [] cls = "bool"  -> TypeOf(x) = "bool"
      [] cls = "str"   -> TypeOf(x) = "str"

\* dict helpers: `k in d`, d[k], d.keys()
HasKey(d, k) == \E i \in 1..Len(Val(d)) : Val(d)[i][1] = k
GetItem(d, k) == Val(d)[CHOOSE i \in 1..Len(Val(d)) : Val(d)[i][1] = k][2]
KeyList(d) == [i \in 1..Len(Val(d)) |-> Val(d)[i][1]]
KeySet(d) == {Val(d)[i][1] : i \in 1..Len(Val(d))}

\* d[k] = v: an existing key keeps its place, a new key goes last
SetItem(d, k, v) ==
    IF HasKey(d, k)
    THEN JDict([i \in 1..Len(Val(d)) |-> IF Val(d)[i][1] = k THEN <<k, v>> ELSE Val(d)[i]])
    ELSE JDict(Append(Val(d), <<k, v>>))

\* {**d, **e}
RECURSIVE Merged(_, _)
Merged(d, e) ==
    IF Len(Val(e)) = 0 THEN d
    ELSE Merged(SetItem(d, Val(e)[1][1], Val(e)[1][2]), JDict(Tail(Val(e))))

\* bool(x) for the values tested for truth here: None, str, list, dict
Truthy(x) == TypeOf(x) # "null" /\ Len(Val(x)) > 0

\* seq[start:stop] of Python, with negative indices counted from the end
PyIndex(i, n) ==
    LET j == IF i < 0 THEN i + n ELSE i
    IN IF j < 0 THEN 0 ELSE IF j > n THEN n ELSE j
PySlice(s, start, stop) ==
    LET a == PyIndex(start, Len(s))
        b == PyIndex(stop, Len(s))
    IN IF a >= b THEN <<>> ELSE SubSeq(s, a + 1, b)

Min(a, b) == IF a < b THEN a ELSE b

---------------------------------------------------------------------------
(* dbapi.py: module constants *)

dbapi_STRING == 1
dbapi_NUMBER == 3
DefaultLimit == 1000
arraysize == 1

---------------------------------------------------------------------------
(* JSONAPICursor._normalize_data *)

\* a wrong order of the `in' tests: data before results
unwrap_data_first(data) ==
    IF isinstance(data, "dict")
    THEN IF HasKey(data, "data") THEN GetItem(data, "data")
         ELSE IF HasKey(data, "results") THEN GetItem(data, "results")
         ELSE IF HasKey(data, "items") THEN GetItem(data, "items")
         ELSE IF HasKey(data, "records") THEN GetItem(data, "records")
         ELSE JList(<<data>>)
    ELSE data

\* lines 235-247: `data' after the first if statement
unwrap(data) ==
    IF isinstance(data, "dict")
    THEN IF HasKey(data, "results") THEN GetItem(data, "results")
         ELSE IF HasKey(data, "data") THEN GetItem(data, "data")
         ELSE IF HasKey(data, "items") THEN GetItem(data, "items")
         ELSE IF HasKey(data, "records") THEN GetItem(data, "records")
         ELSE JList(<<data>>)
    ELSE data

\* a lost else branch: a value that is no list gives no row
rows_from_list_only(data) ==
    IF isinstance(data, "list")
    THEN [i \in 1..Len(Val(data)) |->
             IF isinstance(Val(data)[i], "dict")
             THEN Val(data)[i]
             ELSE JDict(<< <<"value", Val(data)[i]>> >>)]
    ELSE <<>>

\* lines 249-259: `rows' after the second if statement
rows_from(data) ==
    IF isinstance(data, "list")
    THEN [i \in 1..Len(Val(data)) |->
             IF isinstance(Val(data)[i], "dict")
             THEN Val(data)[i]
             ELSE JDict(<< <<"value", Val(data)[i]>> >>)]
    ELSE << JDict(<< <<"value", data>> >>) >>

_normalize_data(data) == rows_from(unwrap(data))

(* JSONAPICursor._create_description *)

type_code(value) ==
    IF isinstance(value, "int") THEN dbapi_NUMBER
    ELSE IF isinstance(value, "float") THEN dbapi_NUMBER
    ELSE IF isinstance(value, "bool") THEN dbapi_NUMBER
    ELSE IF isinstance(value, "dict") \/ isinstance(value, "list") THEN dbapi_STRING
    ELSE dbapi_STRING

_create_description(row) ==
    [i \in 1..Len(Val(row)) |->
        <<Val(row)[i][1], type_code(Val(row)[i][2]), None, None, None, None, TRUE>>]

---------------------------------------------------------------------------
(* SQL text.  A str holding a query is a sequence of lexemes.  `\w', `\s' and
   `\d' of Python's re classify the characters of a lexeme; re.IGNORECASE
   makes a literal match every letter case of itself. *)

LimitWords == {"LIMIT", "limit", "Limit"}
WhereWords == {"WHERE", "where"}
DigitChars == <<"0", "1", "2", "3", "4", "5", "6", "7", "8", "9">>
Digits     == {DigitChars[i] : i \in 1..10}
Spaces     == {" ", "\t"}
Words      == LimitWords \cup WhereWords \cup Digits
                \cup {"SELECT", "FROM", "AND", "data", "t", "userId", "a", "b", "x", "id"}

\* Spaces is the class \s, Digits is \d, Words is \w

\* int() of one decimal digit
digit_value(c) == (CHOOSE i \in 1..10 : DigitChars[i] = c) - 1

\* int(s) for a str of decimal digits
RECURSIVE int(_)
int(s) == IF Len(s) = 0 THEN 0
          ELSE 10 * int(SubSeq(s, 1, Len(s) - 1)) + digit_value(s[Len(s)])

\* the position after the longest run of lexemes of class C starting at i
\* (a greedy `C*')
RECURSIVE run_end(_, _, _)
run_end(s, i, C) ==
    IF i <= Len(s) /\ s[i] \in C THEN run_end(s, i + 1, C) ELSE i

(* JSONAPICursor._parse_limit: re.search(r'LIMIT\s+(\d+)', operation, re.IGNORECASE) *)

\* the pattern matched at position i: <<start of group 1, end of match>>, or <<>>
limit_match_at(s, i) ==
    IF i <= Len(s) /\ s[i] \in LimitWords
    THEN LET j == run_end(s, i + 1, Spaces)
             k == run_end(s, j, Digits)
         IN IF j > i + 1 /\ k > j THEN <<j, k>> ELSE <<>>
    ELSE <<>>

\* a search without re.IGNORECASE
_parse_limit_cased(s) ==
    LET hits == {i \in 1..Len(s) : s[i] = "LIMIT" /\ limit_match_at(s, i) # <<>>}
    IN IF hits # {}
       THEN LET i == CHOOSE h \in hits : \A g \in hits : h <= g
                m == limit_match_at(s, i)
            IN int(SubSeq(s, m[1], m[2] - 1))
       ELSE DefaultLimit

_parse_limit(s) ==
    LET hits == {i \in 1..Len(s) : limit_match_at(s, i) # <<>>}
    IN IF hits # {}
       THEN LET i == CHOOSE h \in hits : \A g \in hits : h <= g
                m == limit_match_at(s, i)
            IN int(SubSeq(s, m[1], m[2] - 1))
       ELSE DefaultLimit

(* JSONAPICursor._parse_filters *)

\* (?:\s+LIMIT\s+\d+|\s*$) matched at position e
where_end_at(s, e) ==
    LET j == run_end(s, e, Spaces)
    IN \/ j > e /\ limit_match_at(s, j) # <<>>
       \/ j = Len(s) + 1

\* WHERE\s+(.+?)(?:\s+LIMIT\s+\d+|\s*$) matched at position i, re.DOTALL:
\* the <<start, end>> of group 1 for the first way the backtracking succeeds
\* (\s+ as long as possible, then .+? as short as possible), or <<>>
where_match_at(s, i) ==
    IF i <= Len(s) /\ s[i] \in WhereWords
    THEN LET smax == run_end(s, i + 1, Spaces)
             ways == {w \in ((i + 2)..smax) \X ((i + 3)..(Len(s) + 1)) :
                         w[2] > w[1] /\ where_end_at(s, w[2])}
         IN IF ways = {} THEN <<>>
            ELSE CHOOSE w \in ways : \A u \in ways :
                    \/ w[1] > u[1]
                    \/ w[1] = u[1] /\ w[2] <= u[2]
    ELSE <<>>

\* (\w+)\s*=\s*(?:"([^"]*)"|'([^']*)'|(\w+)) matched at position p of c:
\* the key, the value (the first non-empty of groups 2..4, else None) and the
\* end of the match
quoted_at(c, b, q) ==
    IF b <= Len(c) /\ c[b] = q
    THEN LET closers == {e \in (b + 1)..Len(c) : c[e] = q}
         IN IF closers = {} THEN <<>>
            ELSE LET e == CHOOSE x \in closers : \A y \in closers : x <= y
                 IN <<SubSeq(c, b + 1, e - 1), e + 1>>
    ELSE <<>>

condition_match_at(c, p) ==
    IF p <= Len(c) /\ c[p] \in Words
    THEN LET w == run_end(c, p, Words)
             a == run_end(c, w, Spaces)
         IN IF a <= Len(c) /\ c[a] = "="
            THEN LET b  == run_end(c, a + 1, Spaces)
                     dq == quoted_at(c, b, "\"")
                     sq == quoted_at(c, b, "'")
                     e  == run_end(c, b, Words)
                     key == SubSeq(c, p, w - 1)
                 IN IF dq # <<>>
                    THEN [ok |-> TRUE, key |-> key, end |-> dq[2],
                          value |-> IF Len(dq[1]) > 0 THEN JStr(dq[1]) ELSE None]
                    ELSE IF sq # <<>>
                    THEN [ok |-> TRUE, key |-> key, end |-> sq[2],
                          value |-> IF Len(sq[1]) > 0 THEN JStr(sq[1]) ELSE None]
                    ELSE IF e > b
                    THEN [ok |-> TRUE, key |-> key, end |-> e, value |-> JStr(SubSeq(c, b, e - 1))]
                    ELSE [ok |-> FALSE]
            ELSE [ok |-> FALSE]
    ELSE [ok |-> FALSE]

\* the loop over re.findall(pattern, conditions), scanning from position p
RECURSIVE filters_from(_, _, _)
filters_from(c, p, acc) ==
    IF p > Len(c) THEN acc
    ELSE LET m == condition_match_at(c, p)
         IN IF ~m.ok THEN filters_from(c, p + 1, acc)
            ELSE filters_from(c, m.end,
                              IF m.value # None THEN SetItem(acc, m.key, m.value)
                              ELSE acc)

_parse_filters(s) ==
    LET hits == {i \in 1..Len(s) : where_match_at(s, i) # <<>>}
    IN IF hits # {}
       THEN LET i == CHOOSE h \in hits : \A g \in hits : h <= g
                m == where_match_at(s, i)
            IN filters_from(SubSeq(s, m[1], m[2] - 1), 1, JDict(<<>>))
       ELSE JDict(<<>>)

---------------------------------------------------------------------------
(* JSONAPICursor *)

\* JSONAPICursor.__init__
new_cursor ==
    [_results |-> <<>>, _description |-> None, rowcount |-> -1, _row_index |-> 0]

\* execute, lines 139-148: the limit, the filters and the request parameters
translate(op) ==
    IF Truthy(op)
    THEN [limit |-> _parse_limit(Val(op)), filters |-> _parse_filters(Val(op))]
    ELSE [limit |-> DefaultLimit, filters |-> JDict(<<>>)]

\* a merge in the other order: {**filters, **(parameters or {})}
query_params_explicit_last(params, fs) ==
    Merged(fs, IF Truthy(params) THEN params ELSE JDict(<<>>))

query_params(params, fs) ==
    Merged(IF Truthy(params) THEN params ELSE JDict(<<>>), fs)

\* what the endpoint answers to one GET: no answer at all (a transport error),
\* or a status with a body that is a JSON document or is not decodable
Undecodable == [undecodable |-> TRUE]
TransportError == [kind |-> "error"]
Answer(status, body) == [kind |-> "http", status |-> status, body |-> body]

RequestExceptions == {"ConnectionError", "Timeout", "RequestException"}

\* execute, lines 152-168: the exception raised inside the try block
raised_in_try(resp) ==
    IF resp.kind = "error" THEN "ConnectionError"
    ELSE IF resp.status # 200 THEN "OperationalError"
    ELSE IF resp.body = Undecodable THEN "DataError"
    ELSE "none"

\* execute, lines 190-193: the except clauses, in order
raised_by_execute(inner) ==
    IF inner = "none" THEN "none"
    ELSE IF inner \in RequestExceptions THEN "OperationalError"
    ELSE "DatabaseError"

\* execute, lines 173-175
apply_limit(rs, lim) ==
    IF lim > 0 /\ Len(rs) > lim THEN SubSeq(rs, 1, lim) ELSE rs

\* execute, lines 170-186: the cursor after a fetched and decoded document
cursor_after(data, lim) ==
    LET rs == apply_limit(_normalize_data(data), lim)
    IN [_results     |-> rs,
        rowcount     |-> Len(rs),
        _row_index   |-> 0,
        _description |-> IF Len(rs) > 0 THEN JList(_create_description(rs[1]))
                         ELSE JList(<<>>)]

\* an execute that clears the cursor before it sends the request
execute_clearing_first(cur, tr, params, resp) ==
    LET inner == raised_in_try(resp)
    IN [cursor |-> IF inner = "none" THEN cursor_after(resp.body, tr.limit)
                   ELSE [cur EXCEPT !._results = <<>>, !.rowcount = 0, !._row_index = 0],
        raised |-> raised_by_execute(inner),
        limit  |-> tr.limit,
        filters |-> tr.filters,
        sent   |-> <<query_params(params, tr.filters)>>]

\* execute as a whole, given tr = translate(operation): the cursor it leaves,
\* the exception it raises, its locals and the GETs it issued
execute(cur, tr, params, resp) ==
    LET inner == raised_in_try(resp)
    IN [cursor |-> IF inner = "none" THEN cursor_after(resp.body, tr.limit) ELSE cur,
        raised |-> raised_by_execute(inner),
        limit  |-> tr.limit,
        filters |-> tr.filters,
        sent   |-> <<query_params(params, tr.filters)>>]

\* fetchone; a negative index counts from the end of the list, and one before
\* its start is an IndexError
fetchone(cur) ==
    LET n == Len(cur._results)
        i == cur._row_index
    IN IF i >= n
       THEN [cursor |-> cur, result |-> None, raised |-> "none"]
       ELSE IF i < 0 - n
       THEN [cursor |-> cur, result |-> None, raised |-> "IndexError"]
       ELSE [cursor |-> [cur EXCEPT !._row_index = @ + 1],
             result |-> cur._results[IF i < 0 THEN i + n + 1 ELSE i + 1],
             raised |-> "none"]

\* fetchmany
fetchmany(cur, size) ==
    LET n == IF size = None THEN arraysize ELSE Val(size)
        end_index == Min(cur._row_index + n, Len(cur._results))
    IN [cursor |-> [cur EXCEPT !._row_index = end_index],
        result |-> JList(PySlice(cur._results, cur._row_index, end_index))]

\* fetchall
fetchall(cur) ==
    [cursor |-> [cur EXCEPT !._row_index = Len(cur._results)],
     result |-> JList(PySlice(cur._results, cur._row_index, Len(cur._results)))]

\* a close that leaves rowcount as it is
close_keeping_rowcount(cur) ==
    [cur EXCEPT !._results = <<>>, !._description = None]

\* close
close(cur) ==
    [cur EXCEPT !._results = <<>>, !._description = None, !.rowcount = -1]

---------------------------------------------------------------------------
(* JSONAPIDialect.get_columns *)

coltype(value) ==
    IF isinstance(value, "int") THEN "Integer"
    ELSE IF isinstance(value, "float") THEN "Float"
    ELSE IF isinstance(value, "bool") THEN "Boolean"
    ELSE IF isinstance(value, "dict") \/ isinstance(value, "list") THEN "JSON"
    ELSE "Text"

default_column ==
    <<"data", "Text", TRUE>>

\* the probe query "SELECT * FROM data LIMIT 5"
probe_query ==
    JStr(<<"SELECT", " ", "*", " ", "FROM", " ", "data", " ", "LIMIT", " ", "5">>)

\* each column as <<name, type, nullable>>
get_columns(resp) ==
    LET ex == execute(new_cursor, translate(probe_query), None, resp)
    IN IF ex.raised # "none" THEN <<default_column>>
       ELSE LET got == Val(fetchmany(ex.cursor, JInt(5)).result)
                cols == IF Len(got) > 0
                        THEN [i \in 1..Len(Val(got[1])) |->
                                 <<Val(got[1])[i][1], coltype(Val(got[1])[i][2]), TRUE>>]
                        ELSE <<>>
            IN IF Len(cols) = 0 THEN <<default_column>> ELSE cols

---------------------------------------------------------------------------
(* api_formatter.py: format_api_response_for_superset *)

\* lines 18-33
rows_of(data) ==
    IF isinstance(data, "dict")
    THEN IF HasKey(data, "results") THEN GetItem(data, "results")
         ELSE IF HasKey(data, "data") THEN GetItem(data, "data")
         ELSE IF HasKey(data, "items") THEN GetItem(data, "items")
         ELSE IF HasKey(data, "records") THEN GetItem(data, "records")
         ELSE JList(<<data>>)
    ELSE IF isinstance(data, "list") THEN data
    ELSE JList(<< JDict(<< <<"value", data>> >>) >>)

\* lines 36-39
all_keys(rs) ==
    UNION {KeySet(rs[i]) : i \in {j \in 1..Len(rs) : isinstance(rs[j], "dict")}}

\* lines 44-46 for one row; `order' is the order in which the set all_keys is
\* iterated, which Python leaves open
RECURSIVE padded(_, _)
padded(row, order) ==
    IF Len(order) = 0 THEN row
    ELSE padded(IF HasKey(row, order[1]) THEN row ELSE SetItem(row, order[1], None),
                Tail(order))

RECURSIVE Orders(_)
Orders(S) ==
    IF S = {} THEN {<<>>}
    ELSE UNION {{<<x>> \o o : o \in Orders(S \ {x})} : x \in S}

\* the whole function.  `for row in rows' iterates the items of a list, the keys
\* of a dict and the characters of a str, and is a TypeError for anything else.
format_api_response_for_superset(resp, order) ==
    IF resp.kind = "error" THEN [raised |-> "ConnectionError"]
    ELSE IF resp.body = Undecodable THEN [raised |-> "JSONDecodeError"]
    ELSE LET rs == rows_of(resp.body)
         IN IF isinstance(rs, "list")
            THEN [raised |-> "none",
                  value |-> JList([i \in 1..Len(Val(rs)) |->
                                IF isinstance(Val(rs)[i], "dict")
                                THEN padded(Val(rs)[i], order) ELSE Val(rs)[i]])]
            ELSE IF isinstance(rs, "dict") \/ isinstance(rs, "str")
            THEN [raised |-> "none", value |-> rs]
            ELSE [raised |-> "TypeError"]

---------------------------------------------------------------------------
(* Inputs *)

MaxRows     == 3    \* longest array among the documents of SpecNormalize
MaxExecRows == 3    \* longest array among the documents of Spec
MaxLimit    == 2    \* largest n of the LIMIT n queries of Spec
MaxSize     == 1    \* largest |size| passed to fetchmany
MaxBack     == 2    \* lowest _row_index followed is -MaxBack
MaxQueryLen == 4    \* longest free-form query of SpecTranslate

Row1     == JDict(<< <<"id", JInt(1)>>, <<"name", JStr("a")>> >>)
Row2     == JDict(<< <<"id", JInt(2)>> >>)
Row3     == JDict(<< <<"name", JStr("b")>>, <<"id", JInt(3)>> >>)
TypesRow == JDict(<< <<"n", JInt(1)>>, <<"x", JFloat("1.5")>>, <<"flag", JBool(TRUE)>>,
                     <<"s", JStr("a")>>, <<"z", None>>,
                     <<"tags", JList(<<JInt(1)>>)>>,
                     <<"meta", JDict(<< <<"k", JInt(1)>> >>)>> >>)

Scalars  == {JInt(1), JFloat("1.5"), JBool(TRUE), JBool(FALSE), JStr("a"), None}
Elements == {Row1, Row2, Row3, JInt(1), None}
ArraysOf(E, n) == {JList(s) : s \in UNION {[1..m -> E] : m \in 0..n}}

WrapperKeys == {"data", "results", "items", "records"}
WrapValues  == {JList(<<Row1, Row2>>), JList(<<JInt(1)>>), JList(<<>>),
                JInt(5), None, JStr("a"), Row1}
Wrapped ==
    {JDict(<< <<k, v>> >>) : k \in WrapperKeys, v \in WrapValues}
      \cup {JDict(<< <<"id", JInt(7)>>, <<k, v>> >>) : k \in WrapperKeys, v \in WrapValues}
TwoWrapped ==
    {JDict(<< <<k[1], JList(<<Row1>>)>>, <<k[2], JList(<<Row2>>)>> >>) :
        k \in {x \in WrapperKeys \X WrapperKeys : x[1] # x[2]}}
Mappings == {JDict(<<>>), Row1, TypesRow} \cup Wrapped \cup TwoWrapped

ScenarioInts == JList(<<JInt(1), JInt(2), JInt(3)>>)
ScenarioData == JDict(<< <<"data", JList(<<Row1, Row2>>)>> >>)

Documents ==
    Scalars \cup ArraysOf(Elements, MaxRows) \cup Mappings
      \cup {ScenarioInts, ScenarioData, JList(<<TypesRow>>), JList(<<JBool(TRUE)>>)}

Failures ==
    {TransportError, Answer(404, Undecodable), Answer(500, JDict(<<>>)),
     Answer(200, Undecodable)}

Responses == Failures \cup {Answer(200, d) : d \in Documents}

\* [{"id": 1}, {"id": 2}, ...] of every length up to MaxExecRows
IdRows(m) == JList([i \in 1..m |-> JDict(<< <<"id", JInt(i)>> >>)])

ExecDocuments ==
    {IdRows(m) : m \in 0..MaxExecRows}
      \cup {JInt(1), JFloat("1.5"), JStr("a"), JBool(FALSE), None, JDict(<<>>),
            ScenarioInts, ScenarioData,
            JDict(<< <<"results", JInt(5)>>, <<"id", JInt(7)>> >>)}

ExecResponses == Failures \cup {Answer(200, d) : d \in ExecDocuments}

\* str(n) for 0 <= n <= 9
str(n) == <<DigitChars[n + 1]>>

SelectAll == <<"SELECT", " ", "*", " ", "FROM", " ", "t">>
LimitQuery(n) == JStr(SelectAll \o <<" ", "LIMIT", " ">> \o str(n))
ScenarioQuery ==
    JStr(SelectAll \o <<" ", "WHERE", " ", "userId", " ", "=", " ", "1",
                        " ", "LIMIT", " ", "2">>)

ExecOperations ==
    {None, ScenarioQuery}
      \cup {LimitQuery(n) : n \in 0..MaxLimit}

\* translate(op), computed once for each operation of Spec
Translation == [op \in ExecOperations |-> translate(op)]

ExecParameters ==
    {None, JDict(<< <<<<"userId">>, JStr(<<"7">>)>>, <<<<"page">>, JStr(<<"2">>)>> >>)}

Sizes == {None} \cup {JInt(n) : n \in (0 - MaxSize)..MaxSize}

\* free-form query text
FreeAlphabet == {"LIMIT", "limit", " ", "0", "1", "a"}
FreeQueries ==
    {JStr(s) : s \in UNION {[1..m -> FreeAlphabet] : m \in 0..MaxQueryLen}}

\* SELECT * FROM t WHERE <col><gap>=<gap><quote><value><quote><rest>
Columns      == {<<"userId">>, <<"a">>}
Gaps         == {<<>>, <<" ">>}
Quotes       == {"'", "\"", ""}
QuotedValues == {<<>>, <<"1">>, <<"x">>, <<"a", " ", "b">>,
                 <<"x", " ", "LIMIT", " ", "5">>}
BareValues   == {<<"1">>, <<"x">>, <<"a", "1">>}
Rests        == {<<>>, <<" ", "LIMIT", " ", "2">>, <<" ", "AND", " ", "b", "=", "2">>}
ValuesFor(q) == IF q = "" THEN BareValues ELSE QuotedValues
Quoted(q, v) == IF q = "" THEN v ELSE <<q>> \o v \o <<q>>
WhereQuery(col, gap, q, v, rest) ==
    JStr(SelectAll \o <<" ", "WHERE", " ">> \o col \o gap \o <<"=">> \o gap
           \o Quoted(q, v) \o rest)
WhereQueries ==
    {WhereQuery(c[1], c[2], c[3], c[4], c[5]) :
        c \in {x \in Columns \X Gaps \X Quotes \X (QuotedValues \cup BareValues) \X Rests :
                  x[4] \in ValuesFor(x[3])}}

Queries == {None, ScenarioQuery} \cup FreeQueries \cup WhereQueries

---------------------------------------------------------------------------
(* The cursor: one JSONAPICursor, through any calls of its methods *)

Init ==
    /\ _results = new_cursor._results
    /\ _description = new_cursor._description
    /\ rowcount = new_cursor.rowcount
    /\ _row_index = new_cursor._row_index
    /\ called = "__init__"
    /\ operation = Unset /\ parameters = Unset /\ fetch_size = Unset
    /\ limit = Unset /\ filters = Unset /\ sent = <<>> /\ response = Unset
    /\ raised = "none" /\ returned = Unset
    /\ rows = Unset /\ formatted = Unset /\ columns = Unset

cursor ==
    [_results |-> _results, _description |-> _description,
     rowcount |-> rowcount, _row_index |-> _row_index]

SetCursor(cur) ==
    /\ _results' = cur._results
    /\ _description' = cur._description
    /\ rowcount' = cur.rowcount
    /\ _row_index' = cur._row_index

Execute ==
    \E op \in ExecOperations, params \in ExecParameters, resp \in ExecResponses :
        LET ex == execute(cursor, Translation[op], params, resp)
        IN /\ SetCursor(ex.cursor)
           /\ called' = "execute"
           /\ operation' = op /\ parameters' = params /\ response' = resp
           /\ limit' = ex.limit /\ filters' = ex.filters /\ sent' = ex.sent
           /\ raised' = ex.raised
           /\ returned' = Unset /\ fetch_size' = Unset
           /\ UNCHANGED pureVars

Fetched(name, size, r) ==
    /\ SetCursor(r.cursor)
    /\ called' = name
    /\ fetch_size' = size
    /\ returned' = r.result
    /\ operation' = Unset /\ parameters' = Unset /\ response' = Unset
    /\ limit' = Unset /\ filters' = Unset /\ sent' = <<>>
    /\ UNCHANGED pureVars

FetchOne ==
    LET r == fetchone(cursor)
    IN Fetched("fetchone", Unset, r) /\ raised' = r.raised

\* a negative size moves _row_index back without limit: the model follows it
\* down to -MaxBack
FetchMany ==
    \E size \in Sizes :
        LET r == fetchmany(cursor, size)
        IN /\ r.cursor._row_index >= 0 - MaxBack
           /\ Fetched("fetchmany", size, r)
           /\ raised' = "none"

FetchAll ==
    Fetched("fetchall", Unset, fetchall(cursor)) /\ raised' = "none"

Close ==
    /\ SetCursor(close(cursor))
    /\ called' = "close"
    /\ fetch_size' = Unset /\ returned' = Unset /\ raised' = "none"
    /\ operation' = Unset /\ parameters' = Unset /\ response' = Unset
    /\ limit' = Unset /\ filters' = Unset /\ sent' = <<>>
    /\ UNCHANGED pureVars

Next == Execute \/ FetchOne \/ FetchMany \/ FetchAll \/ Close

Spec == Init /\ [][Next]_vars

---------------------------------------------------------------------------
(* The query translator alone: lines 139-145 of execute on any query text *)

Blank ==
    /\ _results = new_cursor._results
    /\ _description = new_cursor._description
    /\ rowcount = new_cursor.rowcount
    /\ _row_index = new_cursor._row_index
    /\ parameters = Unset /\ fetch_size = Unset
    /\ limit = Unset /\ filters = Unset /\ sent = <<>>
    /\ raised = "none" /\ returned = Unset
    /\ rows = Unset /\ formatted = Unset /\ columns = Unset

InitTranslate ==
    /\ Blank
    /\ called = "__init__"
    /\ operation \in Queries
    /\ response = Unset

Translate ==
    /\ called = "__init__"
    /\ called' = "translate"
    /\ limit' = translate(operation).limit
    /\ filters' = translate(operation).filters
    /\ UNCHANGED <<cursorVars, pureVars, operation, parameters, fetch_size, sent,
                   response, raised, returned>>

NextTranslate == Translate

SpecTranslate == InitTranslate /\ [][NextTranslate]_vars

---------------------------------------------------------------------------
(* The row normalizers alone, each applied once to what the endpoint answers *)

InitNormalize ==
    /\ Blank
    /\ called = "__init__"
    /\ operation = Unset
    /\ response \in Responses

Decoded(resp) == resp.kind = "http" /\ resp.body # Undecodable

\* _normalize_data runs on the decoded body of a 200 answer
NormalizeData ==
    /\ rows = Unset
    /\ Decoded(response) /\ response.status = 200
    /\ rows' = JList(_normalize_data(response.body))
    /\ called' = "_normalize_data"
    /\ UNCHANGED <<cursorVars, formatted, columns, operation, parameters, fetch_size,
                   limit, filters, sent, response, raised, returned>>

\* the orders in which all_keys can be iterated
KeyOrders(resp) ==
    IF Decoded(resp) /\ isinstance(rows_of(resp.body), "list")
    THEN Orders(all_keys(Val(rows_of(resp.body))))
    ELSE {<<>>}

FormatApiResponse ==
    /\ formatted = Unset
    /\ \E order \in KeyOrders(response) :
          formatted' = format_api_response_for_superset(response, order)
    /\ called' = "format_api_response_for_superset"
    /\ UNCHANGED <<cursorVars, rows, columns, operation, parameters, fetch_size,
                   limit, filters, sent, response, raised, returned>>

GetColumns ==
    /\ columns = Unset
    /\ columns' = JList(get_columns(response))
    /\ called' = "get_columns"
    /\ UNCHANGED <<cursorVars, rows, formatted, operation, parameters, fetch_size,
                   limit, filters, sent, response, raised, returned>>

NextNormalize == NormalizeData \/ FormatApiResponse \/ GetColumns

SpecNormalize == InitNormalize /\ [][NextNormalize]_vars

---------------------------------------------------------------------------
(* Properties *)

Succeeded == called = "execute" /\ raised = "none"

\* the rows _normalize_data made of the document the last execute fetched
Normalized == _normalize_data(response.body)

UnionOfKeys(rs) == UNION {KeySet(rs[i]) : i \in 1..Len(rs)}

\* C1: every row of a result set has the union of the keys of all source rows
\* as its key set, and holds null for each key its source row lacked.
C1_KeyUnion ==
    Succeeded =>
        \A i \in 1..Len(_results) :
            /\ KeySet(_results[i]) = UnionOfKeys(Normalized)
            /\ \A k \in UnionOfKeys(Normalized) \ KeySet(Normalized[i]) :
                  GetItem(_results[i], k) = None

\* C2: after a successful execute with the extracted limit n >= 0, rowcount is
\* at most n and at most the number of normalized rows, and the rows kept are
\* the first rows in their order.
C2_Truncation ==
    Succeeded =>
        /\ rowcount <= limit
        /\ rowcount <= Len(Normalized)
        /\ rowcount = Len(_results)
        /\ _results = SubSeq(Normalized, 1, rowcount)

\* s has LIMIT in some letter case at i, only whitespace on i+1..j-1 (at least
\* one) and the digits of one whole integer on j..k-1
LimitClauseAt(s, i, j, k) ==
    /\ s[i] \in {"LIMIT", "limit", "Limit"}
    /\ i + 1 < j /\ j < k
    /\ \A m \in (i + 1)..(j - 1) : s[m] \in {" ", "\t"}
    /\ \A m \in j..(k - 1) : s[m] \in Digits
    /\ k = Len(s) + 1 \/ s[k] \notin Digits

LimitClauses(s) ==
    {c \in (1..Len(s)) \X (1..Len(s)) \X (1..(Len(s) + 1)) :
        LimitClauseAt(s, c[1], c[2], c[3])}

RECURSIVE Decimal(_)
Decimal(d) ==
    IF Len(d) = 0 THEN 0
    ELSE digit_value(Head(d)) * 10 ^ (Len(d) - 1) + Decimal(Tail(d))

\* C3: the limit is the n of the first `LIMIT n' (any letter case) of the query,
\* and 1000 for a query without one and for an absent or empty query.
C3_LimitExtraction ==
    called = "translate" =>
        IF operation = None THEN limit = 1000
        ELSE LET s == Val(operation)
                 cs == LimitClauses(s)
             IN IF cs = {} THEN limit = 1000
                ELSE \A c \in cs :
                        (\A d \in cs : c[1] <= d[1]) =>
                            limit = Decimal(SubSeq(s, c[2], c[3] - 1))

\* two clauses with different integers, the first one taken
C3_Witness ==
    /\ called = "translate"
    /\ operation # None
    /\ \E c \in LimitClauses(Val(operation)), d \in LimitClauses(Val(operation)) :
          /\ c[1] < d[1]
          /\ Decimal(SubSeq(Val(operation), c[2], c[3] - 1)) = 5
          /\ Decimal(SubSeq(Val(operation), d[2], d[3] - 1)) = 2
    /\ limit = 5

\* C4: a query whose WHERE clause holds col = v, v quoted or bare, translates to
\* filters that map col to v without the quoting.
C4_FilterExtraction ==
    called = "translate" =>
        \A col \in Columns, gap \in Gaps, q \in Quotes, rest \in Rests :
            \A v \in ValuesFor(q) :
                operation = WhereQuery(col, gap, q, v, rest) =>
                    /\ HasKey(filters, col)
                    /\ GetItem(filters, col) = JStr(v)

\* the first key of `order' that the mapping d holds
FirstPresent(order, d) ==
    order[CHOOSE i \in 1..Len(order) :
             /\ HasKey(d, order[i])
             /\ \A j \in 1..(i - 1) : ~HasKey(d, order[j])]

HoldsWrapper(d) == isinstance(d, "dict") /\ KeySet(d) \cap WrapperKeys # {}
HoldsWrappers(d) == isinstance(d, "dict") /\ Cardinality(KeySet(d) \cap WrapperKeys) > 1

\* row r has every item of the mapping m
Extends(r, m) ==
    /\ isinstance(r, "dict")
    /\ \A k \in KeySet(m) : HasKey(r, k) /\ GetItem(r, k) = GetItem(m, k)

\* a mapping with several wrapper keys gives the rows held by the first key of
\* `order' it has (those rows being a list of mappings)
UnwrappedBy(order) ==
    (Decoded(response) /\ HoldsWrappers(response.body)) =>
        LET v == GetItem(response.body, FirstPresent(order, response.body))
        IN (isinstance(v, "list") /\ \A i \in 1..Len(Val(v)) : isinstance(Val(v)[i], "dict")) =>
              /\ rows # Unset => Val(rows) = Val(v)
              /\ formatted # Unset =>
                    /\ formatted.raised = "none"
                    /\ Len(Val(formatted.value)) = Len(Val(v))
                    /\ \A i \in 1..Len(Val(v)) : Extends(Val(formatted.value)[i], Val(v)[i])

\* C5 as stated: with several wrapper keys the rows come from the first present
\* of data, results, items, records.
C5_DataFirst == UnwrappedBy(<<"data", "results", "items", "records">>)

\* C5: with several wrapper keys the rows come from the first present of
\* results, data, items, records; both normalizers agree on it.
C5_ResultsFirst == UnwrappedBy(<<"results", "data", "items", "records">>)

\* both normalizers ran on a mapping that holds data and results, and took the
\* rows under results
C5_Witness ==
    /\ rows # Unset /\ formatted # Unset
    /\ Decoded(response) /\ isinstance(response.body, "dict")
    /\ HasKey(response.body, "data") /\ HasKey(response.body, "results")
    /\ Val(rows) = Val(GetItem(response.body, "results"))
    /\ Val(rows) # Val(GetItem(response.body, "data"))
    /\ Val(formatted.value) = Val(rows)

\* C6: a mapping whose selected wrapper key holds no sequence is normalized to
\* one row, the mapping itself.
C6_WholeMappingRow ==
    (rows # Unset /\ HoldsWrapper(response.body)) =>
        LET k == FirstPresent(<<"results", "data", "items", "records">>, response.body)
        IN ~isinstance(GetItem(response.body, k), "list") =>
              Val(rows) = <<response.body>>

\* the tag the claim gives a value
ClaimedTag(x) ==
    CASE TypeOf(x) = "bool" -> "Boolean"
      [] TypeOf(x) = "int" -> "Integer"
      [] TypeOf(x) = "float" -> "Float"
      [] TypeOf(x) \in {"dict", "list"} -> "JSON"
      [] OTHER -> "Text"

\* C7: the columns inferred from the first row carry Boolean for a boolean,
\* Integer or Float for a number, JSON for a mapping or sequence, Text otherwise.
C7_Classification ==
    (columns # Unset /\ Decoded(response) /\ response.status = 200) =>
        LET rs == _normalize_data(response.body)
        IN (Len(rs) > 0 /\ Len(Val(rs[1])) > 0) =>
              Val(columns) = [i \in 1..Len(Val(rs[1])) |->
                              <<Val(rs[1])[i][1], ClaimedTag(Val(rs[1])[i][2]), TRUE>>]

\* C8: execute raises OperationalError for a transport error and for a non-200
\* status, and DataError for a body that is not JSON.
C8_DistinctFailures ==
    called = "execute" =>
        /\ response.kind = "error" => raised = "OperationalError"
        /\ (response.kind = "http" /\ response.status # 200) =>
              raised = "OperationalError"
        /\ (response.kind = "http" /\ response.status = 200
              /\ response.body = Undecodable) => raised = "DataError"

\* the rows the claim gives the sequence v: one per element, a mapping as it
\* is, anything else under the key value
ClaimedRows(v) ==
    [i \in 1..Len(v) |->
        IF isinstance(v[i], "dict") THEN v[i] ELSE JDict(<< <<"value", v[i]>> >>)]

\* C9: a document that is a sequence is normalized to one row per element in
\* order, a mapping as the row and any other element as {value: element}.
C9_OneRowPerElement ==
    (Decoded(response) /\ isinstance(response.body, "list")) =>
        LET want == ClaimedRows(Val(response.body))
        IN /\ rows # Unset => Val(rows) = want
           /\ formatted # Unset =>
                 /\ formatted.raised = "none"
                 /\ Len(Val(formatted.value)) = Len(want)
                 /\ \A i \in 1..Len(want) : Extends(Val(formatted.value)[i], want[i])

\* C10: execute on any decoded document succeeds; a scalar document gives the
\* one row {value: document}, {} gives one empty row, [] gives no row and
\* rowcount 0.
C10_Total ==
    (called = "execute" /\ Decoded(response) /\ response.status = 200) =>
        /\ raised = "none"
        /\ rowcount = Len(_results)
        /\ TypeOf(response.body) \notin {"dict", "list"} =>
              _results = << JDict(<< <<"value", response.body>> >>) >>
        /\ response.body = JDict(<<>>) => _results = << JDict(<<>>) >>
        /\ response.body = JList(<<>>) => _results = <<>> /\ rowcount = 0

\* execute fetched the document null and holds the one row {value: null}
C10_Witness ==
    /\ Succeeded
    /\ response.body = None
    /\ _results = << JDict(<< <<"value", None>> >>) >>
    /\ rowcount = 1

FetchCalls == {"fetchone", "fetchmany", "fetchall"}

\* the rows a fetch call handed out: fetchone returns a row or None, the other
\* two a list
RowsReturned(name, ret) ==
    IF name = "fetchone" THEN (IF ret = None THEN <<>> ELSE <<ret>>) ELSE Val(ret)

\* what a fetch call returns when there is no row to return
NoRow(name) == IF name = "fetchone" THEN None ELSE JList(<<>>)

\* C11: while a result set is held, a fetchone, fetchmany(size) or fetchall never
\* moves the position back and returns exactly the rows between the old and the
\* new position (so the rows returned in a row of calls are a prefix of the
\* result set, each once); at the end fetchone returns None and the other two
\* the empty list.
C11_ForwardOnly ==
    [][(called' \in FetchCalls /\ rowcount >= 0) =>
          /\ raised' = "none"
          /\ 0 <= _row_index /\ _row_index <= _row_index'
          /\ _row_index' <= Len(_results)
          /\ RowsReturned(called', returned') = SubSeq(_results, _row_index + 1, _row_index')
          /\ _row_index >= Len(_results) => returned' = NoRow(called')]_vars

\* every row of the sequence got is a row of the sequence rs
RowsAmong(got, rs) == \A i \in 1..Len(got) : \E j \in 1..Len(rs) : got[i] = rs[j]

\* the call before this one was a close, or an execute that raised
EarlierSetGone == called = "close" \/ (called = "execute" /\ raised # "none")

\* C12: close and execute discard the result set held before: a close leaves no
\* row, a fetch changes no row and returns only rows that are held, a fetch
\* that follows a close or an execute which produced no new result set returns
\* no row, and the first fetch after a successful execute returns rows of the
\* new result set from its first row on.
C12_Discarded ==
    [][/\ called' = "close" => _results' = <<>>
       /\ called' \in FetchCalls =>
             /\ _results' = _results
             /\ RowsAmong(RowsReturned(called', returned'), _results)
       /\ (EarlierSetGone /\ called' \in FetchCalls) =>
             RowsReturned(called', returned') = <<>>
       /\ (Succeeded /\ called' \in FetchCalls) =>
             /\ _results = apply_limit(Normalized, limit)
             /\ _row_index = 0
             /\ LET got == RowsReturned(called', returned')
                IN got = SubSeq(_results, 1, Len(got))]_vars

\* acc followed by the keys of `keys' it does not hold yet, in their order
RECURSIVE SeenAfter(_, _)
SeenAfter(acc, keys) ==
    IF Len(keys) = 0 THEN acc
    ELSE SeenAfter(IF \E i \in 1..Len(acc) : acc[i] = Head(keys) THEN acc
                   ELSE Append(acc, Head(keys)),
                   Tail(keys))

\* the keys of the rows rs in the order in which a scan of rs first meets them
RECURSIVE FirstSeenOrder(_)
FirstSeenOrder(rs) ==
    IF Len(rs) = 0 THEN <<>>
    ELSE SeenAfter(FirstSeenOrder(SubSeq(rs, 1, Len(rs) - 1)), KeyList(rs[Len(rs)]))

\* the document is a sequence of mappings, bare or under a wrapper key
MappingRows(resp) ==
    /\ Decoded(resp)
    /\ isinstance(rows_of(resp.body), "list")
    /\ Len(Val(rows_of(resp.body))) > 0
    /\ \A i \in 1..Len(Val(rows_of(resp.body))) : isinstance(Val(rows_of(resp.body))[i], "dict")

\* C13: every row of a result set lists its keys in the same order, the order
\* in which the keys are first met scanning the source rows, and the column
\* descriptors follow that order.
C13_ColumnOrder ==
    MappingRows(response) =>
        LET order == FirstSeenOrder(Val(rows_of(response.body)))
        IN /\ formatted # Unset =>
                 /\ formatted.raised = "none"
                 /\ \A i \in 1..Len(Val(formatted.value)) :
                       KeyList(Val(formatted.value)[i]) = order
           /\ (columns # Unset /\ response.status = 200 /\ Len(order) > 0) =>
                 [i \in 1..Len(Val(columns)) |-> Val(columns)[i][1]] = order

\* a description of exactly one column, typed as text and nullable
OneTextColumn(d) ==
    /\ TypeOf(d) = "list"
    /\ Len(Val(d)) = 1
    /\ Val(d)[1][2] = dbapi_STRING
    /\ Val(d)[1][7] = TRUE

\* C14: when the final row sequence of a query is empty, the cursor's
\* description after execute is exactly one generic nullable text column.
C14_EmptyDegrades ==
    (Succeeded /\ _results = <<>>) => OneTextColumn(_description)

\* the last GET was not answered with a decodable 200 document
FetchFailed(resp) == resp.kind = "error" \/ resp.status # 200 \/ resp.body = Undecodable

\* C15: every execute issues exactly one GET, and an execute whose GET fails
\* raises and leaves _results, rowcount, _row_index and _description as they
\* were before the call.
C15_FailureAborts ==
    [][called' = "execute" =>
          /\ Len(sent') = 1
          /\ FetchFailed(response') =>
                /\ raised' # "none"
                /\ _results' = _results
                /\ rowcount' = rowcount
                /\ _row_index' = _row_index
                /\ _description' = _description]_vars

\* an execute failed on a cursor that holds two rows or more and stands after
\* the first of them
C15_Witness ==
    /\ called = "execute"
    /\ FetchFailed(response)
    /\ raised # "none"
    /\ Len(sent) = 1
    /\ Len(_results) >= 2
    /\ rowcount = Len(_results)
    /\ _row_index = 1

\* C16: in every reachable state the position is within the result set:
\* 0 <= _row_index <= len(_results).
C16_PositionInRange ==
    0 <= _row_index /\ _row_index <= Len(_results)

\* no result set is held
NoResultSet ==
    /\ rowcount = -1
    /\ _results = <<>>
    /\ _description = None

\* a result set is held: rowcount counts its rows and the description has one
\* nullable entry per key of the first row, none when there is no row
ResultSetHeld ==
    /\ rowcount = Len(_results)
    /\ TypeOf(_description) = "list"
    /\ IF Len(_results) = 0 THEN Val(_description) = <<>>
       ELSE /\ [i \in 1..Len(Val(_description)) |-> Val(_description)[i][1]]
                  = KeyList(_results[1])
            /\ \A i \in 1..Len(Val(_description)) : Val(_description)[i][7] = TRUE

\* C17: rowcount and description agree with the result set: none is held on a
\* new cursor and after close (rowcount -1, no row, description None), one is
\* held after a successful execute, and every state is one of the two.
C17_Consistent ==
    /\ called \in {"__init__", "close"} => NoResultSet
    /\ Succeeded => ResultSetHeld
    /\ NoResultSet \/ ResultSetHeld

\* a fetch on a held result set of two rows or more with a described column
C17_Witness ==
    /\ called = "fetchone"
    /\ ResultSetHeld
    /\ rowcount >= 2
    /\ Len(Val(_description)) >= 1
    /\ _row_index = 1

\* the `parameters' argument as a mapping: None and {} supply nothing
Explicit(params) == IF Truthy(params) THEN params ELSE JDict(<<>>)

\* C18: the params of the GET are the merge of the explicit parameters and the
\* filters of the query text: their keys and no other, each filter with its
\* value, each explicit parameter that is no filter column with its own value.
C18_Merge ==
    called = "execute" =>
        /\ Len(sent) = 1
        /\ isinstance(sent[1], "dict")
        /\ KeySet(sent[1]) = KeySet(Explicit(parameters)) \cup KeySet(filters)
        /\ Cardinality(KeySet(sent[1])) = Len(Val(sent[1]))
        /\ \A k \in KeySet(filters) : GetItem(sent[1], k) = GetItem(filters, k)
        /\ \A k \in KeySet(Explicit(parameters)) \ KeySet(filters) :
              GetItem(sent[1], k) = GetItem(parameters, k)
        /\ \A k \in KeySet(sent[1]) : k \notin {<<w>> : w \in LimitWords}

\* the scenario query WHERE userId = 1 LIMIT 2 sent with the explicit
\* parameters userId = 7 and page = 2
C18_Witness ==
    /\ called = "execute"
    /\ operation = ScenarioQuery
    /\ parameters # None
    /\ GetItem(parameters, <<"userId">>) = JStr(<<"7">>)
    /\ limit = 2
    /\ KeySet(sent[1]) = {<<"userId">>, <<"page">>}
    /\ GetItem(sent[1], <<"userId">>) = JStr(<<"1">>)
    /\ GetItem(sent[1], <<"page">>) = JStr(<<"2">>)

====
